---- MODULE Spec2Model ----
(***************************************************************************)
(* State-machine model of fa_metrics_systemhealth_AFTERSubm.py: the        *)
(* interval sampler that collects host metrics each tick, writes one text  *)
(* log per tick, appends one row to the CSV history, prunes the log        *)
(* directory and prints the rows added by the run.                         *)
(*                                                                         *)
(* Time is counted in whole seconds.  The runtime typed by the operator is *)
(* counted in hundredths of an hour (2 = 0.02 h = 72 s).                   *)
(***************************************************************************)
EXTENDS Integers, Sequences, FiniteSets, TLC

VARIABLES
  pc,                    \* position of the process in main()
  now,                   \* the clock: time.time() / datetime.now()
  exit_code,             \* -1 while running, then the process exit status
  stdin_interval,        \* what the operator types at the first prompt
  stdin_runtime,         \* what the operator types at the second prompt
  platform_system,       \* platform.system()
  dir_state,             \* the log directory: absent, writable, denied (no
                         \* write permission) or rofs (read-only file system)
  faulty,                \* the psutil sub-query that raises when a tick fails
  fs,                    \* files and directories below the log directory
  csv,                   \* the lines of the CSV history file
  logs,                  \* content of the log files written by this run
  mc_interval_min, st_runtime_hr, log_dir, metrics_history_csv,
  csv_start_row_count, start_time_script, end_time_script,
  error_code, display_timestamp, log_file, m, cutoff_date,
  delta_row_added_df,    \* the table printed by the final output
  ticks,                 \* history: one record per loop iteration started
  sleeps,                \* history: number of time.sleep calls
  prunes,                \* history: number of cleanup_old_logs calls
  initial_disk           \* history: the disk as the process found it

vars == <<pc, now, exit_code, stdin_interval, stdin_runtime, platform_system,
          dir_state, faulty, fs, csv, logs, mc_interval_min, st_runtime_hr,
          log_dir, metrics_history_csv, csv_start_row_count,
          start_time_script, end_time_script, error_code, display_timestamp,
          log_file, m, cutoff_date, delta_row_added_df, ticks, sleeps, prunes,
          initial_disk>>

-----------------------------------------------------------------------------
(* Bounds of the model *)

MaxIntervalMin == 2      \* largest interval typed, in minutes
MaxRuntimeCh == 5        \* largest runtime typed, in hundredths of an hour
MaxPreRows == 2          \* most rows in a history file left by an earlier run

(* Program constants *)

retention_days == 30

Retention == retention_days * 86400          \* timedelta(days=retention_days)
StartClock == Retention + 1000               \* clock when the process starts

IODelay == 1                  \* seconds the two writes of a tick take
WorkTimes == {0, 13}          \* seconds a collection may take
SleepOvershoots == {0, 12}    \* seconds time.sleep may return late

-----------------------------------------------------------------------------
(* Floats: a float is a number or NaN; every comparison with NaN is false *)

Num(x) == [nan |-> FALSE, v |-> x]
NaN == [nan |-> TRUE, v |-> 0]
FLt(a, b) == ~a.nan /\ ~b.nan /\ a.v < b.v
FLe(a, b) == ~a.nan /\ ~b.nan /\ a.v <= b.v
FGe(a, b) == ~a.nan /\ ~b.nan /\ a.v >= b.v
FAdd(a, b) == IF a.nan \/ b.nan THEN NaN ELSE Num(a.v + b.v)

\* st_runtime_hr * 3600, the runtime being held in hundredths of an hour
HoursToSeconds(h) == IF h.nan THEN NaN ELSE Num((h.v * 3600) \div 100)

-----------------------------------------------------------------------------
(* Text typed at the prompts.  kind "integer": an integer literal;         *)
(* "decimal": a literal with a decimal point; "nan": the text nan;         *)
(* "text": anything else.  val is the number written: minutes at the first *)
(* prompt, hundredths of an hour at the second.                            *)

IntervalInputs ==
  {[kind |-> "integer", val |-> v] : v \in -1 .. MaxIntervalMin}
    \cup {[kind |-> "decimal", val |-> 1], [kind |-> "text", val |-> 0]}

RuntimeInputs ==
  {[kind |-> "decimal", val |-> v] : v \in -1 .. MaxRuntimeCh}
    \cup {[kind |-> "nan", val |-> 0], [kind |-> "text", val |-> 0]}

\* int(s): ValueError unless s is an integer literal
ParseInt(s) == IF s.kind = "integer" THEN [ok |-> TRUE, val |-> s.val]
               ELSE [ok |-> FALSE, val |-> 0]

\* float(s): accepts integer and decimal literals and nan
ParseFloat(s) ==
  CASE s.kind \in {"integer", "decimal"} -> [ok |-> TRUE, val |-> Num(s.val)]
    [] s.kind = "nan" -> [ok |-> TRUE, val |-> NaN]
    [] OTHER -> [ok |-> FALSE, val |-> NaN]

\* the range checks of get_user_inputs_mci_sr
IntervalRejected(v) == v <= 0
RuntimeRejected(h) == FLe(h, Num(0))

-----------------------------------------------------------------------------
(* Host identity and the per-OS lookup tables *)

OSTypes == {"Windows", "Linux", "Darwin", "SunOS"}
SupportedOS == {"Windows", "Linux", "Darwin"}

get_hostname == "host1"

get_disk_path(os_type) ==
  CASE os_type = "Windows" -> "C:\\ProgramData\\FA"
    [] os_type = "Linux" -> "/opt/FA"
    [] os_type = "Darwin" -> "/Library/FA"
    [] OTHER -> "RuntimeError"

get_log_directory(os_type) ==
  CASE os_type = "Windows" -> "C:\\temp\\Content_Logs"
    [] os_type = "Linux" -> "/var/log/Content_Logs"
    [] os_type = "Darwin" -> "~/Documents/Content_Logs"
    [] OTHER -> "RuntimeError"

\* os.path.join(log_dir, name) as the pair the file table is keyed by
CsvName == "Metric_History_csv_" \o get_hostname \o ".csv"

\* strftime at one-second resolution: the text of the second count
strftime(t) == ToString(t)

\* mutant: the file timestamp is formatted without the time of day
LogName_DateOnly(t) ==
  ToString(t \div 86400) \o "_" \o get_hostname \o "_SystemHealth_Log.txt"

LogName(t) == strftime(t) \o "_" \o get_hostname \o "_SystemHealth_Log.txt"

-----------------------------------------------------------------------------
(* The file table: records [dir, name, kind, mtime] *)

File(d, n, t) == [dir |-> d, name |-> n, kind |-> "file", mtime |-> t]
Dir(d, n, t) == [dir |-> d, name |-> n, kind |-> "dir", mtime |-> t]

Exists(d, n) == \E f \in fs : f.dir = d /\ f.name = n

\* open(path, "w") or "a" followed by a write: the file gets mtime t
Touch(files, d, n, t) ==
  {f \in files : ~(f.dir = d /\ f.name = n)} \cup {File(d, n, t)}

\* os.listdir(d)
Listdir(files, d) == {f \in files : f.dir = d}

\* mutant: a file exactly at the cutoff is removed too
ShouldRemove_Inclusive(f, cutoff) == f.kind = "file" /\ f.mtime <= cutoff

\* the test of cleanup_old_logs: a regular file older than the cutoff
ShouldRemove(f, cutoff) == f.kind = "file" /\ f.mtime < cutoff

\* mutant: the cutoff is the current time, the retention period left out
Pruned_NoRetention(files, d, t) ==
  files \ {f \in Listdir(files, d) : f.kind = "file" /\ f.mtime < t}

\* the file table after cleanup_old_logs(d) run at time t
Pruned(files, d, t) ==
  files \ {f \in Listdir(files, d) : ShouldRemove(f, t - Retention)}

-----------------------------------------------------------------------------
(* Metrics collection *)

UNAVAILABLE == "N/A"

Pad2(n) == IF n < 10 THEN "0" \o ToString(n) ELSE ToString(n)
\* f"{x:.2f} GB", x held in hundredths
FmtGB(c) == ToString(c \div 100) \o "." \o Pad2(c % 100) \o " GB"
\* f"{x}%", x held in tenths
FmtPct(d) == ToString(d \div 10) \o "." \o ToString(d % 10) \o "%"

\* what psutil reports on this host
Psutil ==
  [idle |-> 88, mem_used |-> 412, mem_total |-> 1600, mem_percent |-> 257,
   disk_used |-> 12050, disk_total |-> 50000, disk_percent |-> 241,
   boot_time |-> StartClock - 3 * 86400 - 500]

SubQueries == <<"cpu", "memory", "disk", "uptime">>

ErrorText(q, os_type) ==
  CASE q = "cpu" -> "cpu_times_percent: access denied"
    [] q = "memory" -> "virtual_memory: not supported"
    [] q = "disk" -> "[Errno 2] No such file or directory: " \o get_disk_path(os_type)
    [] OTHER -> "boot_time: access denied"

\* collect_metrics(os_type) at time t; fails names the sub-query that raises
\* ("" when none does)
collect_metrics(os_type, t, fails) ==
  IF fails # ""
    THEN [ok |-> FALSE, error |-> ErrorText(fails, os_type), values |-> <<>>]
    ELSE [ok |-> TRUE, error |-> "",
          values |-> <<ToString(100 - Psutil.idle) \o "%",
                       FmtGB(Psutil.mem_used), FmtGB(Psutil.mem_total),
                       FmtPct(Psutil.mem_percent),
                       FmtGB(Psutil.disk_used), FmtGB(Psutil.disk_total),
                       FmtPct(Psutil.disk_percent),
                       ToString((t - Psutil.boot_time) \div 86400) \o " Days">>]

\* the eight metric variables before their first assignment
Unassigned == [i \in 1 .. 8 |-> ""]

\* mutant: only the disk and uptime metrics are reset
DegradedMetrics_Partial(previous) ==
  [i \in 1 .. 8 |-> IF i <= 4 THEN previous[i] ELSE "N/A"]

\* the except branch of the tick: every metric becomes the marker
DegradedMetrics(previous) == [i \in 1 .. 8 |-> UNAVAILABLE]

\* mutant: the exception of a failed collection is not caught
TryCollect_Uncaught(result, previous, err) ==
  IF result.ok
    THEN [m |-> result.values, error_code |-> err,
          pc |-> "write_log", exit_code |-> -1]
    ELSE [m |-> previous, error_code |-> err, pc |-> "exited", exit_code |-> 1]

\* try: (...) = collect_metrics(...) except Exception as error_found: ...
\* what the tick holds afterwards and where main() goes on
TryCollect(result, previous, err) ==
  IF result.ok
    THEN [m |-> result.values, error_code |-> err,
          pc |-> "write_log", exit_code |-> -1]
    ELSE [m |-> DegradedMetrics(previous), error_code |-> result.error,
          pc |-> "write_log", exit_code |-> -1]

-----------------------------------------------------------------------------
(* The row, the log file and the CSV history *)

Columns ==
  <<"Timestamp", "Hostname", "CPU usage %", "Used Memory", "Total Memory",
    "Memory usage %", "Used Disk Space", "Total Disk Space", "Disk usage %",
    "uptime">>

\* metrics_df.iloc[0]: the values of metrics_data in column order
Row(ts, metrics) == <<ts, get_hostname>> \o metrics

RECURSIVE Join(_, _)
Join(cells, sep) ==
  IF Len(cells) = 0 THEN ""
  ELSE IF Len(cells) = 1 THEN cells[1]
  ELSE cells[1] \o sep \o Join(Tail(cells), sep)

\* what the tick writes to its log file
LogContent(ts, os_type, row, err) ==
  [run_time |-> ts, hostname |-> get_hostname, os_type |-> os_type,
   header_line |-> Join(Columns, " | "), value_line |-> Join(row, " | "),
   error_line |-> "Error Code: " \o err]

\* mutant: the header is written by every append
WriteHeader_Always(exists) == TRUE

\* write_header = not os.path.exists(metrics_history_csv)
WriteHeader(exists) == ~exists

\* mutant: the file is opened with mode "w"
AppendCsv_Overwrite(lines, row, write_header) ==
  (IF write_header THEN <<Columns>> ELSE <<>>) \o <<row>>

\* mutant: the row is written twice
AppendCsv_Twice(lines, row, write_header) ==
  lines \o (IF write_header THEN <<Columns>> ELSE <<>>) \o <<row, row>>

\* to_csv(mode="a", header=write_header): the lines of the file afterwards
AppendCsv(lines, row, write_header) ==
  lines \o (IF write_header THEN <<Columns>> ELSE <<>>) \o <<row>>

\* values pandas.read_csv reads as missing (those the program can write)
NaValues == {"N/A", "NA", "NaN", "None", "nan", "null", "NULL", "n/a", ""}

ReadCell(c) == IF c \in NaValues THEN "NaN" ELSE c

\* pandas.read_csv: first line the header, the others the rows
read_csv(lines) ==
  [columns |-> lines[1],
   rows |-> [i \in 1 .. Len(lines) - 1 |->
               [j \in 1 .. Len(lines[i + 1]) |-> ReadCell(lines[i + 1][j])]]]

\* df.iloc[n:]
iloc_from(rows, n) ==
  IF n >= Len(rows) THEN <<>> ELSE SubSeq(rows, n + 1, Len(rows))

-----------------------------------------------------------------------------
(* The scheduling tests of the loop *)

\* mutant: the timestamp is taken once, when the run starts
now_timestamp_AtStart(t, start) == start

\* now_timestamp = datetime.now(), evaluated inside the loop at time t
now_timestamp(t, start) == t

\* mutant: the loop is entered whatever the clock says
LoopCondition_Always(t, end) == TRUE

\* while time.time() < end_time_script
LoopCondition(t, end) == FLt(Num(t), end)

\* mutant: the test leaves the interval out
LookaheadExit_NoInterval(t, interval_min, end) == FGe(Num(t), end)

\* if time.time() + (mc_interval_min * 60) >= end_time_script
LookaheadExit(t, interval_min, end) == FGe(FAdd(Num(t), Num(interval_min * 60)), end)

\* mutant: the sleep is given the minutes as seconds
SleepUntil_Minutes(t, interval_min, over) == t + interval_min + over

\* time.sleep(mc_interval_min * 60) returning late by over: the clock after
SleepUntil(t, interval_min, over) == t + interval_min * 60 + over

-----------------------------------------------------------------------------
(* What the process may find on disk when it starts *)

\* a history file of k rows written by an earlier run that ended at time t
PreRows(k, t) ==
  [i \in 1 .. k |->
     Row(strftime(t - (k - i) * 60),
         IF i % 2 = 0 THEN DegradedMetrics(Unassigned)
         ELSE collect_metrics("Linux", t - (k - i) * 60, "").values)]

PreCsv(k, t) == <<Columns>> \o PreRows(k, t)

\* log files of earlier runs and a subdirectory, by age at process start
PreFiles(d) ==
  {File(d, LogName(StartClock - Retention - 1), StartClock - Retention - 1),
   File(d, LogName(StartClock - Retention + IODelay), StartClock - Retention + IODelay),
   File(d, LogName(StartClock - Retention + 70), StartClock - Retention + 70),
   File(d, LogName(StartClock - 5), StartClock - 5),
   Dir(d, "archive", StartClock - Retention - 50),
   File(d \o "/archive", LogName(StartClock - Retention - 50), StartClock - Retention - 50)}

\* the history file an earlier run left: none, or k rows; the one-row file is
\* older than the retention period, the longer ones are recent
PreLedgers == 0 .. MaxPreRows
PreLedgerTime(k) == IF k = 1 THEN StartClock - Retention - 100 ELSE StartClock - 3600

Init ==
  /\ pc = "get_interval"
  /\ now = StartClock
  /\ exit_code = -1
  /\ stdin_interval \in IntervalInputs
  /\ stdin_runtime \in RuntimeInputs
  /\ platform_system \in OSTypes
  /\ dir_state \in {"absent", "writable", "denied", "rofs"}
  /\ faulty \in {SubQueries[i] : i \in 1 .. Len(SubQueries)}
  /\ \E k \in PreLedgers :
       LET d == get_log_directory(platform_system) IN
       IF dir_state = "absent" \/ k = 0
         THEN /\ fs = IF dir_state = "absent" THEN {} ELSE PreFiles(d)
              /\ csv = <<>>
         ELSE /\ fs = PreFiles(d) \cup {File(d, CsvName, PreLedgerTime(k))}
              /\ csv = PreCsv(k, PreLedgerTime(k))
  /\ logs = <<>>
  /\ mc_interval_min = 0
  /\ st_runtime_hr = NaN
  /\ log_dir = ""
  /\ metrics_history_csv = ""
  /\ csv_start_row_count = 0
  /\ start_time_script = 0
  /\ end_time_script = NaN
  /\ error_code = ""
  /\ display_timestamp = ""
  /\ log_file = ""
  /\ m = Unassigned
  /\ cutoff_date = 0
  /\ delta_row_added_df = <<>>
  /\ ticks = <<>>
  /\ sleeps = 0
  /\ prunes = 0
  /\ initial_disk = [fs |-> fs, csv |-> csv, dir_state |-> dir_state]

-----------------------------------------------------------------------------
(* The steps of main() *)

fsVars == <<fs, csv, logs, dir_state>>
envVars == <<stdin_interval, stdin_runtime, platform_system, faulty>>
configVars == <<mc_interval_min, st_runtime_hr, log_dir, metrics_history_csv,
                csv_start_row_count, start_time_script, end_time_script>>
tickVars == <<error_code, display_timestamp, log_file, m>>
histVars == <<ticks, sleeps, prunes, initial_disk>>

\* sys.exit(code), or an uncaught exception (status 1)
Exit(code) == pc' = "exited" /\ exit_code' = code

\* first prompt of get_user_inputs_mci_sr
GetInterval ==
  /\ pc = "get_interval"
  /\ LET p == ParseInt(stdin_interval) IN
       IF ~p.ok \/ IntervalRejected(p.val)
         THEN Exit(1) /\ UNCHANGED mc_interval_min
         ELSE pc' = "get_runtime" /\ mc_interval_min' = p.val /\ UNCHANGED exit_code
  /\ UNCHANGED <<now, envVars, fsVars, st_runtime_hr, log_dir, metrics_history_csv,
                 csv_start_row_count, start_time_script, end_time_script,
                 tickVars, cutoff_date, delta_row_added_df, histVars>>

\* second prompt of get_user_inputs_mci_sr
GetRuntime ==
  /\ pc = "get_runtime"
  /\ LET p == ParseFloat(stdin_runtime) IN
       IF ~p.ok \/ RuntimeRejected(p.val)
         THEN Exit(1) /\ UNCHANGED st_runtime_hr
         ELSE pc' = "get_log_directory" /\ st_runtime_hr' = p.val /\ UNCHANGED exit_code
  /\ UNCHANGED <<now, envVars, fsVars, mc_interval_min, log_dir, metrics_history_csv,
                 csv_start_row_count, start_time_script, end_time_script,
                 tickVars, cutoff_date, delta_row_added_df, histVars>>

\* tag_os_type = get_os_type() ... log_dir = get_log_directory(tag_os_type)
GetLogDirectory ==
  /\ pc = "get_log_directory"
  /\ IF platform_system \in SupportedOS
       THEN /\ log_dir' = get_log_directory(platform_system)
            /\ pc' = "check_permissions"
            /\ UNCHANGED exit_code
       ELSE Exit(1) /\ UNCHANGED log_dir
  /\ UNCHANGED <<now, envVars, fsVars, mc_interval_min, st_runtime_hr,
                 metrics_history_csv, csv_start_row_count, start_time_script,
                 end_time_script, tickVars, cutoff_date, delta_row_added_df,
                 histVars>>

\* check_permissions(log_dir): makedirs, write and remove permission_test.tmp
CheckPermissions ==
  /\ pc = "check_permissions"
  /\ IF dir_state \in {"absent", "writable"}
       THEN /\ dir_state' = "writable"
            /\ metrics_history_csv' = log_dir \o "/" \o CsvName
            /\ pc' = "start_count"
            /\ UNCHANGED exit_code
       ELSE Exit(1) /\ UNCHANGED <<dir_state, metrics_history_csv>>
  /\ UNCHANGED <<now, envVars, fs, csv, logs, mc_interval_min, st_runtime_hr,
                 log_dir, csv_start_row_count, start_time_script,
                 end_time_script, tickVars, cutoff_date, delta_row_added_df,
                 histVars>>

\* csv_start_row_count: rows of the history file, header excluded
StartRowCount(exists, lines) == IF exists THEN Len(read_csv(lines).rows) ELSE 0

StartCount ==
  /\ pc = "start_count"
  /\ csv_start_row_count' = StartRowCount(Exists(log_dir, CsvName), csv)
  /\ start_time_script' = now
  /\ end_time_script' = FAdd(Num(now), HoursToSeconds(st_runtime_hr))
  /\ pc' = "loop_head"
  /\ UNCHANGED <<now, exit_code, envVars, fsVars, mc_interval_min, st_runtime_hr,
                 log_dir, metrics_history_csv, tickVars, cutoff_date,
                 delta_row_added_df, histVars>>

\* while time.time() < end_time_script: ... log_file = ...
LoopHead ==
  /\ pc = "loop_head"
  /\ IF LoopCondition(now, end_time_script)
       THEN /\ error_code' = "None"
            /\ display_timestamp' = strftime(now_timestamp(now, start_time_script))
            /\ log_file' = LogName(now_timestamp(now, start_time_script))
            /\ ticks' = Append(ticks, [start |-> now, failed |-> FALSE,
                                       decided |-> 0, row |-> <<>>])
            /\ pc' = "collect"
       ELSE /\ pc' = "final"
            /\ UNCHANGED <<error_code, display_timestamp, log_file, ticks>>
  /\ UNCHANGED <<now, exit_code, envVars, fsVars, configVars, m, cutoff_date,
                 delta_row_added_df, sleeps, prunes, initial_disk>>

\* try: (...) = collect_metrics(tag_os_type) except Exception as error_found
Collect ==
  /\ pc = "collect"
  /\ \E w \in WorkTimes, fails \in {"", faulty} :
       LET result == collect_metrics(platform_system, now, fails)
           after == TryCollect(result, m, error_code)
       IN /\ m' = after.m
          /\ error_code' = after.error_code
          /\ pc' = after.pc
          /\ exit_code' = after.exit_code
          /\ ticks' = [ticks EXCEPT ![Len(ticks)].failed = ~result.ok]
          /\ now' = now + w
  /\ UNCHANGED <<envVars, fsVars, configVars, display_timestamp, log_file,
                 cutoff_date, delta_row_added_df, sleeps, prunes, initial_disk>>

\* with open(log_file, "w") as lf: ...
WriteLog ==
  /\ pc = "write_log"
  /\ fs' = Touch(fs, log_dir, log_file, now)
  /\ logs' = [n \in DOMAIN logs \cup {log_file} |->
               IF n = log_file
                 THEN LogContent(display_timestamp, platform_system,
                                 Row(display_timestamp, m), error_code)
                 ELSE logs[n]]
  /\ pc' = "write_csv"
  /\ UNCHANGED <<now, exit_code, envVars, csv, dir_state, configVars, tickVars,
                 cutoff_date, delta_row_added_df, histVars>>

\* write_header = ...; metrics_df.to_csv(metrics_history_csv, mode="a", ...)
WriteCsv ==
  /\ pc = "write_csv"
  /\ csv' = AppendCsv(csv, Row(display_timestamp, m),
                      WriteHeader(Exists(log_dir, CsvName)))
  /\ fs' = Touch(fs, log_dir, CsvName, now)
  /\ ticks' = [ticks EXCEPT ![Len(ticks)].row = Row(display_timestamp, m)]
  /\ now' = now + IODelay
  /\ pc' = "cleanup"
  /\ UNCHANGED <<exit_code, envVars, logs, dir_state, configVars, tickVars,
                 cutoff_date, delta_row_added_df, sleeps, prunes, initial_disk>>

\* cleanup_old_logs(log_dir)
Cleanup ==
  /\ pc = "cleanup"
  /\ cutoff_date' = now - Retention
  /\ fs' = Pruned(fs, log_dir, now)
  /\ logs' = [n \in {x \in DOMAIN logs : File(log_dir, x, 0).name \in
                        {f.name : f \in Listdir(fs', log_dir)}} |-> logs[n]]
  /\ csv' = IF \E f \in fs' : f.dir = log_dir /\ f.name = CsvName THEN csv ELSE <<>>
  /\ prunes' = prunes + 1
  /\ pc' = "lookahead"
  /\ UNCHANGED <<now, exit_code, envVars, dir_state, configVars, tickVars,
                 delta_row_added_df, ticks, sleeps, initial_disk>>

\* if time.time() + (mc_interval_min * 60) >= end_time_script: break
Lookahead ==
  /\ pc = "lookahead"
  /\ pc' = IF LookaheadExit(now, mc_interval_min, end_time_script)
             THEN "final" ELSE "sleep"
  /\ ticks' = [ticks EXCEPT ![Len(ticks)].decided = now]
  /\ UNCHANGED <<now, exit_code, envVars, fsVars, configVars, tickVars,
                 cutoff_date, delta_row_added_df, sleeps, prunes, initial_disk>>

\* time.sleep(mc_interval_min * 60)
Sleep ==
  /\ pc = "sleep"
  /\ \E over \in SleepOvershoots : now' = SleepUntil(now, mc_interval_min, over)
  /\ sleeps' = sleeps + 1
  /\ pc' = "loop_head"
  /\ UNCHANGED <<exit_code, envVars, fsVars, configVars, tickVars, cutoff_date,
                 delta_row_added_df, ticks, prunes, initial_disk>>

\* final_updated_df.iloc[csv_start_row_count:]
RunDelta(lines, start) == iloc_from(read_csv(lines).rows, start)

\* FINAL OUTPUT: read the history file back and print the rows of this run;
\* pd.read_csv raises FileNotFoundError when the file does not exist
FinalOutput ==
  /\ pc = "final"
  /\ IF Exists(log_dir, CsvName)
       THEN /\ delta_row_added_df' = RunDelta(csv, csv_start_row_count)
            /\ Exit(0)
       ELSE /\ Exit(1)
            /\ UNCHANGED delta_row_added_df
  /\ UNCHANGED <<now, envVars, fsVars, configVars, tickVars, cutoff_date, histVars>>

Next ==
  \/ GetInterval
  \/ GetRuntime
  \/ GetLogDirectory
  \/ CheckPermissions
  \/ StartCount
  \/ LoopHead
  \/ Collect
  \/ WriteLog
  \/ WriteCsv
  \/ Cleanup
  \/ Lookahead
  \/ Sleep
  \/ FinalOutput

Spec == Init /\ [][Next]_vars

\* the loop runs to its end: no step of main() waits on anything but the clock
FairSpec == Spec /\ WF_vars(Next)

-----------------------------------------------------------------------------
(* Vocabulary of the properties *)

\* the configuration was accepted and the deadline is set
Started == start_time_script # 0

\* the loop has stopped (the final output may have run too)
Stopped == Started /\ pc \in {"final", "exited"}

IntervalSec == mc_interval_min * 60
DurationSec == (st_runtime_hr.v * 3600) \div 100
PositiveDuration == Started /\ ~st_runtime_hr.nan /\ DurationSec > 0
CeilTicks == (DurationSec + IntervalSec - 1) \div IntervalSec
FloorTicks == DurationSec \div IntervalSec

\* seconds the run is behind the nominal schedule start + sleeps * interval
Drift == now - start_time_script - sleeps * IntervalSec

\* tick i has done its two writes, its prune and its continuation test
TickDone(i) ==
  i < Len(ticks) \/ pc \in {"sleep", "loop_head", "final", "exited"}

\* tick i has done its two writes
TickWritten(i) == TickDone(i) \/ pc \in {"cleanup", "lookahead"}

\* the line of the history file that tick i appended
RunLine(i) == csv[1 + csv_start_row_count + i]

LedgerFile == {f \in fs : f.dir = log_dir /\ f.name = CsvName}
LedgerExists == LedgerFile # {}

IsPrefix(a, b) == Len(a) <= Len(b) /\ SubSeq(b, 1, Len(a)) = a

MetricCells(row) == {row[j] : j \in 3 .. Len(row)}

-----------------------------------------------------------------------------
\* C1 as the specification states it: with duration >= interval a run makes
\* exactly floor(duration / interval) ticks.
C1_FloorTickCount ==
  (Stopped /\ PositiveDuration /\ DurationSec >= IntervalSec)
    => Len(ticks) = FloorTicks

\* C1 amended: with duration >= interval a run makes at least one and at
\* most ceil(duration / interval) ticks, and exactly that many when the work
\* time and the late sleeps of the run add up to less than
\* duration - (ceil(duration / interval) - 1) * interval; every tick but the
\* last is followed by one sleep, and the last tick is the one whose lookahead
\* test holds or the one whose sleep ends at or after the deadline; with a
\* 1 minute interval and 72 s that is 2 ticks and 1 sleep.
C1_TickCount ==
  (Stopped /\ PositiveDuration /\ DurationSec >= IntervalSec) =>
    LET n == Len(ticks)
        end == start_time_script + DurationSec
    IN /\ 1 <= n /\ n <= CeilTicks
       /\ Drift < DurationSec - (CeilTicks - 1) * IntervalSec => n = CeilTicks
       /\ \A i \in 1 .. n - 1 : ticks[i].decided + IntervalSec < end
       /\ \/ sleeps = n - 1 /\ ticks[n].decided + IntervalSec >= end
          \/ sleeps = n /\ ticks[n].decided + IntervalSec < end /\ now >= end
       /\ (IntervalSec = 60 /\ DurationSec = 72 /\ Drift < 12)
            => n = 2 /\ sleeps = 1

\* a run of 1 minute interval and 0.02 h has stopped after two ticks
C1_Witness ==
  /\ Stopped /\ PositiveDuration
  /\ IntervalSec = 60 /\ DurationSec = 72
  /\ Len(ticks) = 2 /\ sleeps = 1 /\ Drift < 12

-----------------------------------------------------------------------------
\* C2: with duration < interval the loop makes exactly one tick and never
\* sleeps.
C2_OneTickNoSleep ==
  (PositiveDuration /\ DurationSec < IntervalSec) =>
    /\ sleeps = 0
    /\ Len(ticks) <= 1
    /\ pc # "sleep"
    /\ Stopped => Len(ticks) = 1

C2_Witness ==
  /\ Stopped /\ PositiveDuration /\ DurationSec < IntervalSec
  /\ Len(ticks) = 1 /\ csv # <<>>

-----------------------------------------------------------------------------
\* C3: a tick whose collection failed is carried through like any other: the
\* process does not end on it, its log file is written, its row is appended,
\* the pruner runs, and whether the loop goes on is decided by the lookahead
\* test alone.
C3_FailureDoesNotAbort ==
  \A i \in 1 .. Len(ticks) :
    ticks[i].failed =>
      /\ pc = "exited" => exit_code = 0
      /\ TickWritten(i) =>
           /\ \E f \in fs : f.dir = log_dir /\ f.name = LogName(ticks[i].start)
                              /\ f.kind = "file"
           /\ LogName(ticks[i].start) \in DOMAIN logs
           /\ Len(csv) >= 1 + csv_start_row_count + i
           /\ RunLine(i) = ticks[i].row
           /\ ticks[i].row # <<>>
      /\ TickDone(i) =>
           /\ prunes >= i
           /\ (i < Len(ticks) \/ pc = "sleep") =>
                 ticks[i].decided + IntervalSec
                   < start_time_script + DurationSec
           /\ (i = Len(ticks) /\ pc \in {"final", "exited"} /\ sleeps < i) =>
                 ticks[i].decided + IntervalSec
                   >= start_time_script + DurationSec

\* a tick succeeded after an earlier tick of the run had failed
C3_Witness ==
  /\ Len(ticks) >= 2
  /\ ticks[1].failed /\ ~ticks[2].failed
  /\ TickDone(2)
  /\ RunLine(1) = ticks[1].row /\ RunLine(2) = ticks[2].row

-----------------------------------------------------------------------------
\* the rows this run has appended so far, in tick order
RunRows == SelectSeq([i \in 1 .. Len(ticks) |-> ticks[i].row], LAMBDA r : r # <<>>)

\* the log file of tick i as it is on disk
TickLog(i) == logs[LogName(ticks[i].start)]

\* C4: every persisted snapshot is all-or-nothing: the row and the log file of
\* a tick whose collection failed hold the unavailable marker in all eight
\* metric fields and a non-empty error cause; those of a tick whose collection
\* succeeded hold eight values and the error cause None.
C4_AllOrNothing ==
  \A i \in 1 .. Len(ticks) :
    TickWritten(i) =>
      LET row == csv[1 + csv_start_row_count + i]
          log == TickLog(i)
          head == <<strftime(ticks[i].start), get_hostname>>
      IN /\ Len(row) = 10
         /\ SubSeq(row, 1, 2) = head
         /\ log.value_line = Join(row, " | ")
         /\ IF ticks[i].failed
              THEN /\ MetricCells(row) = {"N/A"}
                   /\ log.error_line \notin {"Error Code: ", "Error Code: None"}
              ELSE /\ MetricCells(row) \cap {"N/A", ""} = {}
                   /\ log.error_line = "Error Code: None"

\* the disk query failed on a tick that followed a successful one, and both
\* ticks are on disk
C4_Witness ==
  /\ faulty = "disk"
  /\ Len(ticks) >= 2
  /\ ~ticks[1].failed /\ ticks[2].failed
  /\ TickWritten(2)
  /\ MetricCells(csv[3 + csv_start_row_count]) = {"N/A"}

-----------------------------------------------------------------------------
\* C5: once the run has appended N >= 1 rows, the history file is one header
\* line followed by the rows it held before the run and then the N new rows;
\* the header is there once, written by the append that found no file.
C5_OneHeader ==
  Len(RunRows) >= 1 =>
    LET before == initial_disk.csv
        old == IF before = <<>> THEN <<>> ELSE Tail(before)
    IN /\ csv = <<Columns>> \o old \o RunRows
       /\ \A i \in 2 .. Len(csv) : csv[i] # Columns
       /\ LedgerExists

\* two appends of a run that found no history file
C5_Witness ==
  /\ initial_disk.csv = <<>>
  /\ Len(RunRows) = 2
  /\ Len(csv) = 3 /\ csv[1] = Columns

-----------------------------------------------------------------------------
\* C6: the rows the final output reports are exactly the rows this run
\* appended, one per tick, in tick order.
C6_RunDeltaRoundTrip ==
  (pc = "exited" /\ exit_code = 0 /\ PositiveDuration)
    => delta_row_added_df = RunRows

-----------------------------------------------------------------------------
\* C7: the history file is append-only: no step removes the file or changes,
\* reorders or drops a line it already holds.
C7_AppendOnly ==
  [][/\ IsPrefix(csv, csv')
     /\ LedgerExists => LedgerExists'
     /\ IsPrefix(initial_disk.csv, csv')]_vars

\* a run that found a history file of two rows has appended two more
C7_Witness ==
  /\ Stopped
  /\ Len(initial_disk.csv) = 3
  /\ Len(csv) = 5
  /\ SubSeq(csv, 1, 3) = initial_disk.csv

-----------------------------------------------------------------------------
\* the files cleanup_old_logs(log_dir) looks at
PruneCandidates == {f \in Listdir(fs, log_dir) : f.kind = "file"}

\* C8 as the specification states it: the pruner never deletes the history
\* file, which lies outside the directory the pruner scans or is a name the
\* pruner leaves out.
C8_LedgerOutOfPrunerReach ==
  (pc = "cleanup" /\ LedgerExists) => LedgerFile \cap PruneCandidates = {}

\* C8 amended: no prune of a run deletes the history file, whatever its age
\* when the run began: the file lies in the directory the pruner scans and is
\* among the files it tests, and it survives because the append of the same
\* tick has renewed its modification time.
C8_LedgerSurvivesPrune ==
  /\ [](pc = "cleanup" => /\ LedgerExists
                          /\ LedgerFile \subseteq PruneCandidates
                          /\ \A f \in LedgerFile : f.mtime >= now - IODelay)
  /\ [][pc = "cleanup" => LedgerExists' /\ csv' = csv]_vars

\* a history file older than the retention period has come through a prune
C8_Witness ==
  /\ pc = "lookahead"
  /\ \E f \in initial_disk.fs :
       f.name = CsvName /\ f.mtime < StartClock - Retention
  /\ LedgerExists
  /\ prunes >= 1

-----------------------------------------------------------------------------
\* C9: right after a prune no regular file directly inside the log directory
\* is older than now - retention, every regular file at or after the cutoff
\* is still there, and nothing in a subdirectory has been deleted.
C9_Retention ==
  [][pc = "cleanup" =>
       LET cutoff == now - retention_days * 86400 IN
       /\ \A f \in fs' : (f.dir = log_dir /\ f.kind = "file") => f.mtime >= cutoff
       /\ \A f \in fs : (f.kind = "file" /\ f.mtime >= cutoff) => f \in fs'
       /\ \A f \in fs : (f.dir # log_dir \/ f.kind = "dir") => f \in fs'
       /\ fs' \subseteq fs]_vars

\* the first prune has deleted the file one second past the retention period
\* and kept the file exactly at the cutoff and the old file in the
\* subdirectory
C9_Witness ==
  /\ pc = "lookahead" /\ prunes = 1
  /\ \E f \in initial_disk.fs \ fs : f.dir = log_dir /\ f.mtime = cutoff_date - 1 - IODelay
  /\ \E f \in fs : f.dir = log_dir /\ f.kind = "file" /\ f.mtime = cutoff_date
  /\ \E f \in fs : f.dir # log_dir /\ f.kind = "file" /\ f.mtime < cutoff_date

-----------------------------------------------------------------------------
\* what the operator typed is not a strictly positive number
BadInterval == stdin_interval.kind \notin {"integer", "decimal"} \/ stdin_interval.val <= 0
BadRuntime == stdin_runtime.kind \notin {"integer", "decimal"} \/ stdin_runtime.val <= 0

ConfigurationError ==
  \/ BadInterval
  \/ BadRuntime
  \/ platform_system \notin {"Windows", "Linux", "Darwin"}
  \/ initial_disk.dir_state \in {"denied", "rofs"}

\* C10: with a configuration error the process ends with a non-zero status
\* before any tick, having collected nothing and left the disk as it was.
C10_ConfigurationErrorIsFatal ==
  ConfigurationError =>
    /\ pc \in {"get_interval", "get_runtime", "get_log_directory",
                "check_permissions", "exited"}
    /\ pc = "exited" => exit_code # 0
    /\ Len(ticks) = 0 /\ prunes = 0 /\ sleeps = 0
    /\ fs = initial_disk.fs /\ csv = initial_disk.csv
    /\ dir_state = initial_disk.dir_state
    /\ logs = <<>>

-----------------------------------------------------------------------------
\* the files below the log directory that this run has created
NewFiles == {f \in fs : \A g \in initial_disk.fs : ~(g.dir = f.dir /\ g.name = f.name)}

\* C11: within a run rows and log files come in tick order: the k-th row the
\* run appended and the k-th log file it created carry the timestamp of the
\* k-th tick, and the timestamps of the run's rows never decrease.
C11_TickOrder ==
  /\ \A i \in 1 .. Len(ticks) :
       TickWritten(i) =>
         /\ Len(csv) >= 1 + csv_start_row_count + i
         /\ csv[1 + csv_start_row_count + i][1] = ToString(ticks[i].start)
         /\ \E f \in NewFiles :
              /\ f.dir = log_dir /\ f.kind = "file"
              /\ f.name = ToString(ticks[i].start) \o "_host1_SystemHealth_Log.txt"
              /\ logs[f.name].run_time = ToString(ticks[i].start)
              /\ \A j \in 1 .. Len(ticks) :
                   (j < i => ticks[j].start <= ticks[i].start)
              /\ \A g \in NewFiles :
                   (g.name # CsvName /\ g.mtime < f.mtime) =>
                     \E j \in 1 .. i - 1 :
                       g.name = ToString(ticks[j].start) \o "_host1_SystemHealth_Log.txt"
  /\ \A i \in 1 .. Len(ticks) - 1 : ticks[i].start <= ticks[i + 1].start
  /\ Len(RunRows) <= Len(ticks)
  /\ \A k \in 1 .. Len(RunRows) : RunRows[k][1] = ToString(ticks[k].start)

\* three ticks of a run are on disk, the later ones with later timestamps
C11_Witness ==
  /\ Len(ticks) = 3 /\ TickWritten(3)
  /\ ticks[1].start < ticks[2].start /\ ticks[2].start < ticks[3].start
  /\ csv[Len(csv)][1] = ToString(ticks[3].start)

-----------------------------------------------------------------------------
\* the column order the specification fixes
SchemaColumns ==
  <<"Timestamp", "Hostname", "CPU usage %", "Used Memory", "Total Memory",
    "Memory usage %", "Used Disk Space", "Total Disk Space", "Disk usage %",
    "Uptime">>

\* C12: the header the append writes into a new history file and the header
\* line of every log file list the schema columns in order, and every row has
\* one value per column.
C12_SchemaHeader ==
  /\ (initial_disk.csv = <<>> /\ Len(RunRows) >= 1) => csv[1] = SchemaColumns
  /\ \A n \in DOMAIN logs : logs[n].header_line = Join(SchemaColumns, " | ")
  /\ \A k \in 1 .. Len(RunRows) : Len(RunRows[k]) = Len(SchemaColumns)

-----------------------------------------------------------------------------
\* C13 as the specification states it: the loop stops through the lookahead
\* test only, so that every sleep is followed by another tick.
C13_EverySleepThenTick ==
  (Stopped /\ PositiveDuration) => sleeps = Len(ticks) - 1

\* C13 amended: the loop stops either through the lookahead test made after a
\* tick's writes and prune, or through the loop-head test time < endDeadline,
\* which is made again after every sleep; a sleep is followed by another tick
\* exactly when it ends before endDeadline, so the loop-head test stops the
\* loop only after a sleep that returned late, at or after endDeadline.
C13_TwoExits ==
  /\ [][(pc = "loop_head" /\ PositiveDuration) =>
          IF now < start_time_script + DurationSec
            THEN pc' = "collect" /\ Len(ticks') = Len(ticks) + 1
            ELSE pc' = "final" /\ ticks' = ticks /\ sleeps >= 1]_vars
  /\ [][(pc = "lookahead" /\ PositiveDuration) =>
          IF now + mc_interval_min * 60 >= start_time_script + DurationSec
            THEN pc' = "final" ELSE pc' = "sleep"]_vars
  /\ []((Stopped /\ PositiveDuration) =>
         LET n == Len(ticks)
             end == start_time_script + DurationSec
         IN \/ sleeps = n - 1 /\ ticks[n].decided + IntervalSec >= end
            \/ /\ sleeps = n
               /\ ticks[n].decided + IntervalSec < end
               /\ now >= end
               /\ now > ticks[n].decided + IntervalSec)

\* the loop has stopped at the loop head after a sleep that returned late
C13_Witness ==
  /\ Stopped /\ PositiveDuration
  /\ sleeps = Len(ticks) /\ Len(ticks) >= 1
  /\ now >= start_time_script + DurationSec

-----------------------------------------------------------------------------
\* C14: the deadline is set once to start + duration and never changes, no
\* tick begins at or after it, and the loop does not sleep when start of sleep
\* + interval is at or after it.
C14_NoOvershoot ==
  /\ [](PositiveDuration =>
         /\ end_time_script = Num(start_time_script + DurationSec)
         /\ \A i \in 1 .. Len(ticks) :
              ticks[i].start < start_time_script + DurationSec
         /\ (pc = "sleep" => now + IntervalSec < start_time_script + DurationSec))
  /\ [][Started => /\ end_time_script' = end_time_script
                   /\ start_time_script' = start_time_script]_vars

\* the loop is about to sleep before a last tick that fits before the deadline
C14_Witness ==
  /\ pc = "sleep" /\ PositiveDuration
  /\ Len(ticks) = 2
  /\ now + IntervalSec < start_time_script + DurationSec

-----------------------------------------------------------------------------
\* the log files this run has created
NewLogs == {f \in NewFiles : f.dir = log_dir /\ f.kind = "file" /\ f.name # CsvName}

\* ticks whose log file has been written
TicksLogged == IF pc \in {"collect", "write_log"} THEN Len(ticks) - 1 ELSE Len(ticks)

-----------------------------------------------------------------------------
\* C16: a tick does its steps once each and in the order collect, log file,
\* history row, prune, continuation test; the prune comes once per tick after
\* both writes, and at every tick boundary the run has appended as many rows
\* as it has completed ticks.
C16_StepOrder ==
  /\ [][/\ pc = "collect" => (pc' = "write_log" /\ fs' = fs /\ csv' = csv)
        /\ pc = "write_log" =>
             /\ pc' = "write_csv" /\ csv' = csv /\ prunes' = prunes
             /\ Cardinality(NewLogs') = Cardinality(NewLogs) + 1
        /\ pc = "write_csv" =>
             /\ pc' = "cleanup" /\ prunes' = prunes
             /\ Len(csv') = 1 + csv_start_row_count + Len(ticks)
             /\ NewLogs' = NewLogs
        /\ pc = "cleanup" =>
             /\ pc' = "lookahead" /\ prunes' = prunes + 1 /\ csv' = csv
        /\ pc = "lookahead" =>
             /\ pc' \in {"sleep", "final"}
             /\ UNCHANGED <<fs, csv, prunes, now>>
        /\ pc = "sleep" => pc' = "loop_head" /\ UNCHANGED <<fs, csv, prunes>>]_vars
  /\ []((Started /\ pc \in {"loop_head", "sleep", "final"}) =>
         /\ prunes = Len(ticks)
         /\ (Len(ticks) >= 1 => Len(csv) = 1 + csv_start_row_count + Len(ticks))
         /\ Cardinality(NewLogs) = Len(ticks))
  /\ [](pc = "cleanup" =>
         /\ prunes = Len(ticks) - 1
         /\ Len(csv) = 1 + csv_start_row_count + Len(ticks)
         /\ Cardinality(NewLogs) = Len(ticks))

\* the loop is at the boundary after its second tick
C16_Witness ==
  /\ pc = "sleep" /\ Len(ticks) = 2 /\ prunes = 2
  /\ Len(csv) = 3 + csv_start_row_count

-----------------------------------------------------------------------------
\* C17: every tick creates one new log file, named from the second of the
\* tick and the hostname, and no tick writes to the file of an earlier tick.
C17_OneLogPerTick ==
  /\ [][pc = "write_log" =>
          /\ \A f \in fs : ~(f.dir = log_dir /\ f.name = log_file)
          /\ fs \subseteq fs'
          /\ Cardinality(fs') = Cardinality(fs) + 1
          /\ \E f \in fs' \ fs :
               /\ f.dir = log_dir /\ f.kind = "file"
               /\ f.name = ToString(ticks[Len(ticks)].start) \o "_"
                              \o get_hostname \o "_SystemHealth_Log.txt"]_vars
  /\ [](Started => Cardinality(NewLogs) = TicksLogged)
  /\ [](\A i, j \in 1 .. Len(ticks) :
          i < j => ticks[j].start - ticks[i].start >= 60)

\* three ticks of a run have left three log files
C17_Witness ==
  /\ Len(ticks) = 3 /\ pc = "write_csv"
  /\ Cardinality(NewLogs) = 3

-----------------------------------------------------------------------------
\* seconds of work of ticks 1 .. k: from the start of a tick to its
\* continuation test
RECURSIVE WorkDone(_)
WorkDone(k) ==
  IF k = 0 THEN 0 ELSE WorkDone(k - 1) + (ticks[k].decided - ticks[k].start)

\* C18: consecutive ticks are at least a full interval apart, the interval
\* being slept after the work of a tick: tick k+1 starts no earlier than
\* start + k * interval + the work time of ticks 1 .. k.
C18_FullIntervalApart ==
  Len(ticks) >= 1 =>
    /\ ticks[1].start = start_time_script
    /\ \A k \in 1 .. Len(ticks) - 1 :
         /\ ticks[k + 1].start >= ticks[k].start + mc_interval_min * 60
         /\ ticks[k + 1].start >= ticks[k].decided + mc_interval_min * 60
         /\ ticks[k].decided >= ticks[k].start
         /\ ticks[k + 1].start
              >= start_time_script + k * mc_interval_min * 60 + WorkDone(k)

\* the second tick started later than one interval after the first
C18_Witness ==
  /\ Len(ticks) >= 2
  /\ ticks[2].start > ticks[1].start + mc_interval_min * 60
  /\ WorkDone(1) > 0

====
